---- MODULE Spec2Model ----
(***************************************************************************)
(* RelooperJumpThreading (src/src/passes/RelooperJumpThreading.cpp).       *)
(*                                                                         *)
(* The expression tree is a nested record value:                           *)
(*   [k |-> "block", name, list]      Block (name NoName when unnamed)     *)
(*   [k |-> "if", condition, ifTrue, ifFalse]   If (ifFalse None = null)   *)
(*   [k |-> "set", index, value]      SetLocal of a Const                  *)
(*   [k |-> "break", name]            Break                                *)
(*   [k |-> "stmt", id]               any other (opaque) statement         *)
(*   [k |-> "nop"]                    Nop                                  *)
(* A condition is [k |-> "eq", index, value] (Binary EqInt32 of a GetLocal *)
(* and a Const) or [k |-> "cond", id] (anything else).                     *)
(* The model is of the build with assertions enabled; the inputs drawn     *)
(* below are the trees on which no cast<> of the pass is applied to a node *)
(* of another type.                                                        *)
(***************************************************************************)
EXTENDS Integers, Sequences, FiniteSets, TLC

\* const Index MAX_NAME_INDEX = 1000;
MAX_NAME_INDEX == 1000

\* locals are identified by name: LABEL is the local the pass looks for
\* (static Name LABEL("label")), X is some other local
LABEL == "label"
X == "x"

\* number of functions optimized in parallel (SpecPar)
NumFuncs == 2

-----------------------------------------------------------------------------
\* Expression constructors

None == [k |-> "none"]
Nop == [k |-> "nop"]
NoName == [s |-> "none", i |-> 0]
UserName(n) == [s |-> "user", i |-> n]
Stmt(id) == [k |-> "stmt", id |-> id]
SetLocal(idx, v) == [k |-> "set", index |-> idx, value |-> v]
Break(n) == [k |-> "break", name |-> n]
Block(n, l) == [k |-> "block", name |-> n, list |-> l]
If(c, t, f) == [k |-> "if", condition |-> c, ifTrue |-> t, ifFalse |-> f]
Eq(idx, v) == [k |-> "eq", index |-> idx, value |-> v]
Cond(id) == [k |-> "cond", id |-> id]

\* innerNames->at(i), outerNames->at(i): "jumpthreading$inner$<i>", "...$outer$<i>"
innerNames(i) == [s |-> "inner", i |-> i]
outerNames(i) == [s |-> "outer", i |-> i]

-----------------------------------------------------------------------------
\* Generic tree helpers (the walker framework)

\* the child expressions of a node that hold statements, in walk order
Children(e) ==
  IF e.k = "block" THEN e.list
  ELSE IF e.k = "if" THEN
    IF e.ifFalse = None THEN <<e.ifTrue>> ELSE <<e.ifTrue, e.ifFalse>>
  ELSE <<>>


\* the concatenation of the sequences of ss
RECURSIVE FlattenTuple(_)
FlattenTuple(t) ==
  IF Len(t) = 0 THEN <<>>
  ELSE IF Len(t) = 1 THEN t[1]
  ELSE LET h == Len(t) \div 2
       IN FlattenTuple(SubSeq(t, 1, h)) \o FlattenTuple(SubSeq(t, h + 1, Len(t)))

Flatten(ss) == LET t == ss \o <<>> IN FlattenTuple(t)

\* PostWalker order: the paths (child positions from the root) of every Block
\* in e, children before their parent
RECURSIVE BlockPaths(_)
BlockPaths(e) ==
  LET ch == Children(e)
      sub == Flatten([i \in 1..Len(ch) |->
                 LET ps == BlockPaths(ch[i])
                 IN [n \in 1..Len(ps) |-> <<i>> \o ps[n]]])
  IN IF e.k = "block" THEN Append(sub, <<>>) ELSE sub

RECURSIVE GetAt(_, _)
GetAt(e, p) ==
  IF p = <<>> THEN e ELSE GetAt(Children(e)[Head(p)], Tail(p))

RECURSIVE PutAt(_, _, _)
PutAt(e, p, new) ==
  IF p = <<>> THEN new
  ELSE IF e.k = "block"
    THEN [e EXCEPT !.list[Head(p)] = PutAt(e.list[Head(p)], Tail(p), new)]
  ELSE IF Head(p) = 1
    THEN [e EXCEPT !.ifTrue = PutAt(e.ifTrue, Tail(p), new)]
  ELSE [e EXCEPT !.ifFalse = PutAt(e.ifFalse, Tail(p), new)]

-----------------------------------------------------------------------------
\* static helpers of the pass

\* isLabelCheckingIf: an If whose condition is an EqInt32 Binary with a
\* GetLocal of labelIndex on the left
isLabelCheckingIf(curr, labelIndex) ==
  /\ curr.k = "if"
  /\ curr.condition.k = "eq"
  /\ curr.condition.index = labelIndex

\* getCheckedLabelValue: the Const on the right of the condition
getCheckedLabelValue(iff) == iff.condition.value

isLabelSettingSetLocal(curr, labelIndex) ==
  /\ curr.k = "set"
  /\ curr.index = labelIndex

getSetLabelValue(set) == set.value

\* LabelUseFinder: the label values of the checks / of the sets found by a
\* walk of e, one entry per occurrence
RECURSIVE FinderChecks(_, _)
FinderChecks(e, labelIndex) ==
  LET ch == Children(e)
      sub == Flatten([i \in 1..Len(ch) |-> FinderChecks(ch[i], labelIndex)])
  IN IF isLabelCheckingIf(e, labelIndex)
       THEN Append(sub, getCheckedLabelValue(e)) ELSE sub

RECURSIVE FinderSets(_, _)
FinderSets(e, labelIndex) ==
  LET ch == Children(e)
      sub == Flatten([i \in 1..Len(ch) |-> FinderSets(ch[i], labelIndex)])
  IN IF isLabelSettingSetLocal(e, labelIndex)
       THEN Append(sub, getSetLabelValue(e)) ELSE sub

\* the std::map<Index, Index> a finder fills: value => number of occurrences
CountMap(vals) ==
  [v \in {vals[i] : i \in DOMAIN vals} |->
     Cardinality({i \in DOMAIN vals : vals[i] = v})]

\* std::map operator[]: an absent key reads as 0
MapGet(m, v) == IF v \in DOMAIN m THEN m[v] ELSE 0

-----------------------------------------------------------------------------
\* Builder utilities used by the rewriter

makeBreak(name) == Break(name)

\* blockifyWithName: an unnamed block is reused (named, the break appended);
\* anything else, a named block included, is wrapped in a new block
blockifyWithName(any, name, append) ==
  IF any.k = "block" /\ any.name = NoName
    THEN Block(name, Append(any.list, append))
    ELSE Block(name, <<any, append>>)

\* makeSequence(inner, ifTrue), then outer->name = outerName
makeSequence(left, right) == Block(NoName, <<left, right>>)

\* ExpressionManipulator::nop(iff): the node becomes a Nop in place
nop(target) == Nop

-----------------------------------------------------------------------------
\* Faulty variant of JumpUpdater: the value assigned is not compared with
\* targetNum
RECURSIVE JumpUpdaterAnyValue(_, _, _, _)
JumpUpdaterAnyValue(e, labelIndex, targetNum, targetName) ==
  IF e.k = "set"
    THEN IF e.index = labelIndex THEN makeBreak(targetName) ELSE e
  ELSE IF e.k = "block"
    THEN [e EXCEPT !.list = [i \in 1..Len(e.list) |->
            JumpUpdaterAnyValue(e.list[i], labelIndex, targetNum, targetName)]
              \o <<>>]
  ELSE IF e.k = "if"
    THEN [e EXCEPT
            !.ifTrue = JumpUpdaterAnyValue(e.ifTrue, labelIndex, targetNum,
                                           targetName),
            !.ifFalse = IF e.ifFalse = None THEN None
                        ELSE JumpUpdaterAnyValue(e.ifFalse, labelIndex,
                                                 targetNum, targetName)]
  ELSE e

\* JumpUpdater: every SetLocal of labelIndex whose Const value is targetNum
\* is replaced by a break to targetName
RECURSIVE JumpUpdater(_, _, _, _)
JumpUpdater(e, labelIndex, targetNum, targetName) ==
  IF e.k = "set"
    THEN IF e.index = labelIndex /\ e.value = targetNum
           THEN makeBreak(targetName) ELSE e
  ELSE IF e.k = "block"
    THEN [e EXCEPT !.list = [i \in 1..Len(e.list) |->
            JumpUpdater(e.list[i], labelIndex, targetNum, targetName)] \o <<>>]
  ELSE IF e.k = "if"
    THEN [e EXCEPT
            !.ifTrue = JumpUpdater(e.ifTrue, labelIndex, targetNum, targetName),
            !.ifFalse = IF e.ifFalse = None THEN None
                        ELSE JumpUpdater(e.ifFalse, labelIndex, targetNum, targetName)]
  ELSE e

-----------------------------------------------------------------------------
\* hasIrreducibleControlFlow.  The while loop over the chain; each step
\* records what it read: [num, checks, checksInOrigin, setsInOrigin, sets].
\* failed: an assertion of the function does not hold.
RECURSIVE IrreducibleLoop(_, _, _, _, _, _, _)
IrreducibleLoop(iff, labelIndex, labelChecks, labelSets, labelChecksInOrigin, labelSetsInOrigin, visited) ==
  IF ~isLabelCheckingIf(iff, labelIndex)
    THEN [result |-> FALSE, visited |-> visited, failed |-> FALSE]
  ELSE
    LET num == getCheckedLabelValue(iff)
        step == [num |-> num,
                 checks |-> MapGet(labelChecks, num),
                 checksInOrigin |-> MapGet(labelChecksInOrigin, num),
                 setsInOrigin |-> MapGet(labelSetsInOrigin, num),
                 sets |-> MapGet(labelSets, num)]
        seen == Append(visited, step)
    IN IF ~(step.checks > 0)
         THEN [result |-> FALSE, visited |-> seen, failed |-> TRUE]
       ELSE IF step.checks > 1
         THEN [result |-> TRUE, visited |-> seen, failed |-> FALSE]
       ELSE IF step.checksInOrigin # 0
         THEN [result |-> FALSE, visited |-> seen, failed |-> TRUE]
       ELSE IF step.setsInOrigin # step.sets
         THEN [result |-> TRUE, visited |-> seen,
               failed |-> ~(step.setsInOrigin < step.sets)]
       ELSE IrreducibleLoop(iff.ifFalse, labelIndex, labelChecks, labelSets,
                            labelChecksInOrigin, labelSetsInOrigin, seen)

\* Faulty variant of hasIrreducibleControlFlow: the sets in the origin are
\* not counted, the function-wide counts are compared with themselves
hasIrreducibleControlFlowChecksOnly(iff, origin, labelIndex, labelChecks, labelSets) ==
  IrreducibleLoop(iff, labelIndex, labelChecks, labelSets,
                  CountMap(FinderChecks(origin, labelIndex)), labelSets, <<>>)

hasIrreducibleControlFlow(iff, origin, labelIndex, labelChecks, labelSets) ==
  IrreducibleLoop(iff, labelIndex, labelChecks, labelSets,
                  CountMap(FinderChecks(origin, labelIndex)),
                  CountMap(FinderSets(origin, labelIndex)), <<>>)

-----------------------------------------------------------------------------
\* Faulty variant of optimizeJumpsToLabelCheck: the recursion over the chain
\* does not pass the advanced cursor on
RECURSIVE optimizeJumpsToLabelCheckSameIndex(_, _, _, _, _)
optimizeJumpsToLabelCheckSameIndex(origin, iff, labelIndex, newNameCounter, drawn) ==
  LET nameCounter == newNameCounter
      counter == newNameCounter + 1
  IN
  IF nameCounter >= MAX_NAME_INDEX
    THEN [origin |-> origin, newNameCounter |-> counter, failed |-> FALSE,
          drawn |-> Append(drawn, [index |-> nameCounter, capped |-> TRUE, num |-> 0])]
  ELSE IF iff.condition.k # "eq"
    THEN [origin |-> origin, newNameCounter |-> counter, failed |-> TRUE,
          drawn |-> drawn]
  ELSE
    LET num == getCheckedLabelValue(iff)
        innerName == innerNames(nameCounter)
        outerName == outerNames(nameCounter)
        ifFalse == iff.ifFalse
        updated == JumpUpdater(origin, labelIndex, num, innerName)
        inner == blockifyWithName(updated, innerName, makeBreak(outerName))
        outer == [makeSequence(inner, iff.ifTrue) EXCEPT !.name = outerName]
        now == Append(drawn, [index |-> nameCounter, capped |-> FALSE, num |-> num])
    IN IF ifFalse = None
         THEN [origin |-> outer, newNameCounter |-> counter, failed |-> FALSE,
               drawn |-> now]
       ELSE IF ifFalse.k # "if"
         THEN [origin |-> outer, newNameCounter |-> counter, failed |-> TRUE,
               drawn |-> now]
       ELSE optimizeJumpsToLabelCheckSameIndex(outer, ifFalse, labelIndex,
                                               nameCounter, now)

\* optimizeJumpsToLabelCheck(origin, iff).  Returns the new origin, the new
\* newNameCounter and, per call of the recursion, what it drew:
\* [index, capped, num].  failed: a cast<> of the function fails.
RECURSIVE optimizeJumpsToLabelCheck(_, _, _, _, _)
optimizeJumpsToLabelCheck(origin, iff, labelIndex, newNameCounter, drawn) ==
  LET nameCounter == newNameCounter
      counter == newNameCounter + 1
  IN
  IF nameCounter >= MAX_NAME_INDEX
    THEN [origin |-> origin, newNameCounter |-> counter, failed |-> FALSE,
          drawn |-> Append(drawn, [index |-> nameCounter, capped |-> TRUE, num |-> 0])]
  ELSE IF iff.condition.k # "eq"
    THEN [origin |-> origin, newNameCounter |-> counter, failed |-> TRUE,
          drawn |-> drawn]
  ELSE
    LET num == getCheckedLabelValue(iff)
        innerName == innerNames(nameCounter)
        outerName == outerNames(nameCounter)
        ifFalse == iff.ifFalse
        updated == JumpUpdater(origin, labelIndex, num, innerName)
        inner == blockifyWithName(updated, innerName, makeBreak(outerName))
        outer == [makeSequence(inner, iff.ifTrue) EXCEPT !.name = outerName]
        now == Append(drawn, [index |-> nameCounter, capped |-> FALSE, num |-> num])
    IN IF ifFalse = None
         THEN [origin |-> outer, newNameCounter |-> counter, failed |-> FALSE,
               drawn |-> now]
       ELSE IF ifFalse.k # "if"
         THEN [origin |-> outer, newNameCounter |-> counter, failed |-> TRUE,
               drawn |-> now]
       ELSE optimizeJumpsToLabelCheck(outer, ifFalse, labelIndex, counter, now)

-----------------------------------------------------------------------------
\* visitBlock.  st = [list, newNameCounter, log, failed]; cx = [labelIndex,
\* labelChecks, labelSets].  The log has one entry per matched child list[j].

LogEntry(origin, j, holder, before, iff, a, irreducible, o) ==
  [origin |-> origin, j |-> j, holder |-> holder, originBefore |-> before,
   iff |-> iff, analysis |-> a.result, visited |-> a.visited,
   irreducible |-> irreducible, rewritten |-> ~irreducible, drawn |-> o.drawn]

NoRewrite(st) ==
  [origin |-> None, newNameCounter |-> st.newNameCounter, failed |-> FALSE,
   drawn |-> <<>>]

\* Faulty variant of the direct match: irreducible = ..., not |=
MatchIfNotSticky(cx, st, origin, j, irreducible) ==
  LET iff == st.list[j]
      a == hasIrreducibleControlFlow(iff, st.list[origin], cx.labelIndex,
                                     cx.labelChecks, cx.labelSets)
      irr == a.result
      o == IF irr \/ a.failed THEN NoRewrite(st)
           ELSE optimizeJumpsToLabelCheck(st.list[origin], iff, cx.labelIndex,
                                          st.newNameCounter, <<>>)
      entry == LogEntry(origin, j, FALSE, st.list[origin], iff, a, irr, o)
  IN [irreducible |-> irr,
      st |-> [list |-> IF irr \/ a.failed THEN st.list
                       ELSE [st.list EXCEPT ![origin] = o.origin, ![j] = nop(iff)],
              newNameCounter |-> o.newNameCounter,
              log |-> Append(st.log, entry),
              failed |-> a.failed \/ o.failed]]

\* the direct match: list[j] is a label-checking if
MatchIf(cx, st, origin, j, irreducible) ==
  LET iff == st.list[j]
      a == hasIrreducibleControlFlow(iff, st.list[origin], cx.labelIndex,
                                     cx.labelChecks, cx.labelSets)
      irr == irreducible \/ a.result
      o == IF irr \/ a.failed THEN NoRewrite(st)
           ELSE optimizeJumpsToLabelCheck(st.list[origin], iff, cx.labelIndex,
                                          st.newNameCounter, <<>>)
      entry == LogEntry(origin, j, FALSE, st.list[origin], iff, a, irr, o)
  IN [irreducible |-> irr,
      st |-> [list |-> IF irr \/ a.failed THEN st.list
                       ELSE [st.list EXCEPT ![origin] = o.origin, ![j] = nop(iff)],
              newNameCounter |-> o.newNameCounter,
              log |-> Append(st.log, entry),
              failed |-> a.failed \/ o.failed]]

\* the holder match: list[j] is a block whose first child is a label-checking if
MatchHolder(cx, st, origin, j, irreducible) ==
  LET holder == st.list[j]
      iff == holder.list[1]
      a == hasIrreducibleControlFlow(iff, st.list[origin], cx.labelIndex,
                                     cx.labelChecks, cx.labelSets)
      irr == irreducible \/ a.result
      sizeOk == Len(holder.list) = 1
      o == IF irr \/ a.failed \/ ~sizeOk THEN NoRewrite(st)
           ELSE optimizeJumpsToLabelCheck(st.list[origin], iff, cx.labelIndex,
                                          st.newNameCounter, <<>>)
      entry == LogEntry(origin, j, TRUE, st.list[origin], iff, a, irr, o)
  IN [irreducible |-> irr,
      st |-> [list |-> IF irr \/ a.failed \/ ~sizeOk THEN st.list
                       ELSE [st.list EXCEPT
                               ![origin] = [holder EXCEPT !.list[1] = o.origin],
                               ![j] = nop(iff)],
              newNameCounter |-> o.newNameCounter,
              log |-> Append(st.log, entry),
              failed |-> a.failed \/ o.failed \/ (~irr /\ ~sizeOk)]]

RECURSIVE OuterLoop(_, _, _)
RECURSIVE InnerLoop(_, _, _, _, _, _)

\* for (Index j = i + 1; j < list.size(); j++)
InnerLoop(cx, st, i, origin, j, irreducible) ==
  IF st.failed THEN st
  ELSE IF j > Len(st.list) THEN OuterLoop(cx, st, i + 1)
  ELSE IF isLabelCheckingIf(st.list[j], cx.labelIndex)
    THEN LET m == MatchIf(cx, st, origin, j, irreducible)
         IN InnerLoop(cx, m.st, i + 1, origin, j + 1, m.irreducible)
  ELSE IF /\ st.list[j].k = "block"
          /\ Len(st.list[j].list) > 0
          /\ isLabelCheckingIf(st.list[j].list[1], cx.labelIndex)
    THEN LET m == MatchHolder(cx, st, origin, j, irreducible)
         IN InnerLoop(cx, m.st, i + 1, origin, j + 1, m.irreducible)
  ELSE OuterLoop(cx, st, i + 1)

\* for (Index i = 0; i < list.size() - 1; i++), positions counted from 1
OuterLoop(cx, st, i) ==
  IF st.failed \/ i > Len(st.list) - 1 THEN st
  ELSE InnerLoop(cx, st, i, i, i + 1, FALSE)

visitBlock(curr, labelIndex, labelChecks, labelSets, newNameCounter) ==
  LET cx == [labelIndex |-> labelIndex, labelChecks |-> labelChecks,
             labelSets |-> labelSets]
      st == [list |-> curr.list, newNameCounter |-> newNameCounter,
             log |-> <<>>, failed |-> FALSE]
  IN IF Len(curr.list) = 0 THEN st ELSE OuterLoop(cx, st, 1)

-----------------------------------------------------------------------------
\* Program state

VARIABLES
  namesReady,      \* innerNames / outerNames have been created (NameEnsurer)
  func,            \* the functions handed to the pass: [hasLabel, body]
  tree,            \* func->body of each function, as the pass mutates it
  pc,              \* per function: "created", "walking", "done", "aborted"
  run,             \* per function: 1 = first run of the pass, 2 = second run
  pending,         \* per function: the blocks the walker has still to visit
  labelChecks,     \* per instance: label value => number of checks
  labelSets,       \* per instance: label value => number of sets
  newNameCounter,  \* per instance: the name cursor
  visit,           \* per function: what the last visitBlock did
  first            \* per function: the body after the first run

vars == <<namesReady, func, tree, pc, run, pending, labelChecks, labelSets,
          newNameCounter, visit, first>>

Funcs == DOMAIN func

EmptyMap == [v \in {} |-> 0]
NoVisit == [path |-> <<>>, block |-> Nop, counterBefore |-> 0, log |-> <<>>]

\* Faulty variant of the cursor: one static counter shared by all instances
CounterSlotStatic(f) == 1

\* Index newNameCounter = 0: a member of the instance created for function f
CounterSlot(f) == f

InitWith(fs) ==
  /\ namesReady = FALSE
  /\ func \in fs
  /\ tree = [f \in DOMAIN func |-> func[f].body]
  /\ pc = [f \in DOMAIN func |-> "created"]
  /\ run = [f \in DOMAIN func |-> 1]
  /\ pending = [f \in DOMAIN func |-> <<>>]
  /\ labelChecks = [f \in DOMAIN func |-> EmptyMap]
  /\ labelSets = [f \in DOMAIN func |-> EmptyMap]
  /\ newNameCounter = [f \in DOMAIN func |-> 0]
  /\ visit = [f \in DOMAIN func |-> NoVisit]
  /\ first = [f \in DOMAIN func |-> Nop]

\* the finder adds to the maps of the instance
MapAdd(old, new) ==
  [v \in DOMAIN old \cup DOMAIN new |-> MapGet(old, v) + MapGet(new, v)]

\* prepareToRun: static NameEnsurer ensurer, constructed once
prepareToRun ==
  /\ ~namesReady
  /\ namesReady' = TRUE
  /\ UNCHANGED <<func, tree, pc, run, pending, labelChecks, labelSets,
                 newNameCounter, visit, first>>


\* Faulty variant of doWalkFunction: the finder is handed the two maps in the
\* wrong order
doWalkFunctionSwapped(f) ==
  /\ namesReady
  /\ pc[f] = "created"
  /\ IF func[f].hasLabel
       THEN /\ labelChecks' = [labelChecks EXCEPT
                 ![f] = MapAdd(@, CountMap(FinderSets(tree[f], LABEL)))]
            /\ labelSets' = [labelSets EXCEPT
                 ![f] = MapAdd(@, CountMap(FinderChecks(tree[f], LABEL)))]
            /\ pending' = [pending EXCEPT ![f] = BlockPaths(tree[f])]
            /\ pc' = [pc EXCEPT
                 ![f] = IF BlockPaths(tree[f]) = <<>> THEN "done" ELSE "walking"]
       ELSE /\ pc' = [pc EXCEPT ![f] = "done"]
            /\ UNCHANGED <<labelChecks, labelSets, pending>>
  /\ UNCHANGED <<namesReady, func, tree, run, newNameCounter, visit, first>>

\* doWalkFunction up to the start of the walk
doWalkFunction(f) ==
  /\ namesReady
  /\ pc[f] = "created"
  /\ IF func[f].hasLabel
       THEN /\ labelChecks' = [labelChecks EXCEPT
                 ![f] = MapAdd(@, CountMap(FinderChecks(tree[f], LABEL)))]
            /\ labelSets' = [labelSets EXCEPT
                 ![f] = MapAdd(@, CountMap(FinderSets(tree[f], LABEL)))]
            /\ pending' = [pending EXCEPT ![f] = BlockPaths(tree[f])]
            /\ pc' = [pc EXCEPT
                 ![f] = IF BlockPaths(tree[f]) = <<>> THEN "done" ELSE "walking"]
       ELSE /\ pc' = [pc EXCEPT ![f] = "done"]
            /\ UNCHANGED <<labelChecks, labelSets, pending>>
  /\ UNCHANGED <<namesReady, func, tree, run, newNameCounter, visit, first>>

\* the walker reaches the next block: visitBlock(curr)
VisitBlock(f) ==
  /\ pc[f] = "walking"
  /\ LET p == Head(pending[f])
         curr == GetAt(tree[f], p)
         r == visitBlock(curr, LABEL, labelChecks[f], labelSets[f],
                         newNameCounter[CounterSlot(f)])
     IN /\ tree' = [tree EXCEPT ![f] = PutAt(@, p, [curr EXCEPT !.list = r.list])]
        /\ newNameCounter' = [newNameCounter EXCEPT
                                ![CounterSlot(f)] = r.newNameCounter]
        /\ visit' = [visit EXCEPT ![f] =
               [path |-> p, block |-> curr,
                counterBefore |-> newNameCounter[CounterSlot(f)], log |-> r.log]]
        /\ pending' = [pending EXCEPT ![f] = Tail(@)]
        /\ pc' = [pc EXCEPT ![f] =
               IF r.failed THEN "aborted"
               ELSE IF Tail(pending[f]) = <<>> THEN "done" ELSE "walking"]
  /\ UNCHANGED <<namesReady, func, run, labelChecks, labelSets, first>>

\* the pass is run again over the function: create() makes a new instance
SecondRun(f) ==
  /\ pc[f] = "done"
  /\ run[f] = 1
  /\ run' = [run EXCEPT ![f] = 2]
  /\ pc' = [pc EXCEPT ![f] = "created"]
  /\ first' = [first EXCEPT ![f] = tree[f]]
  /\ labelChecks' = [labelChecks EXCEPT ![f] = EmptyMap]
  /\ labelSets' = [labelSets EXCEPT ![f] = EmptyMap]
  /\ newNameCounter' = [newNameCounter EXCEPT ![CounterSlot(f)] = 0]
  /\ visit' = [visit EXCEPT ![f] = NoVisit]
  /\ UNCHANGED <<namesReady, func, tree, pending>>

Next ==
  \/ prepareToRun
  \/ \E f \in Funcs : doWalkFunction(f)
  \/ \E f \in Funcs : VisitBlock(f)
  \/ \E f \in Funcs : SecondRun(f)

-----------------------------------------------------------------------------
\* Inputs

A == Stmt("A")
B == Stmt("B")
C == Stmt("C")
D == Stmt("D")
StX == Stmt("X")
StY == Stmt("Y")
Seqn(l) == Block(NoName, l)
Check(v, t, f) == If(Eq(LABEL, v), t, f)
Assign(v) == SetLocal(LABEL, v)

\* predecessors: the statement in front of the conditionals
Preds ==
  { Assign(1), Assign(5), StX,
    Seqn(<<SetLocal(X, 5), Assign(5)>>),
    Seqn(<<If(Cond("c1"), Assign(5), None), StX>>),
    Seqn(<<StX, If(Cond("c1"), Assign(5), None)>>),
    Block(UserName(1),
          <<If(Cond("c1"), Seqn(<<Assign(5), Break(UserName(1))>>), None), StX>>),
    Seqn(<<If(Cond("c1"), Seqn(<<Assign(5), Break(UserName(9))>>), None), StX>>),
    Seqn(<<StX, If(Cond("c1"), Assign(1), Assign(2))>>),
    Seqn(<<If(Cond("c1"), Assign(1), None), If(Cond("c2"), Assign(2), None)>>),
    Seqn(<<If(Cond("c1"), Assign(1), If(Cond("c2"), Assign(2), Assign(5)))>>) }

\* what follows the predecessor in the block's list
Runs ==
  { <<Check(5, B, None)>>,
    <<Check(1, A, None)>>,
    <<Check(1, A, Check(2, B, None))>>,
    <<Check(1, A, None), Check(2, B, None)>>,
    <<Check(1, A, None), Check(1, B, None)>>,
    <<Check(1, A, None), Check(2, B, None), Check(5, C, None)>>,
    <<Check(1, Assign(2), None), Check(2, B, None)>>,
    <<Check(1, A, If(Eq(X, 2), C, None))>>,
    <<Check(1, A, If(Eq(X, 2), C, Check(5, D, None)))>>,
    <<Block(UserName(2), <<Check(1, A, None)>>)>>,
    <<Check(1, A, None), Block(UserName(2), <<Check(2, B, None)>>)>>,
    <<Block(UserName(2), <<Check(1, A, Check(2, B, None))>>), Check(5, C, None)>>,
    <<Check(1, Check(2, C, None), None)>>,
    <<Check(1, Seqn(<<Check(2, C, None)>>), None)>>,
    <<Check(5, Seqn(<<StY, Check(2, C, None)>>), None)>>,
    <<Check(1, A, None), StY, Check(2, B, None)>> }

\* the rest of the body: nothing, a set or a check elsewhere, another site
Extras ==
  { <<>>,
    <<StY, Assign(1)>>,
    <<StY, Assign(2)>>,
    <<StY, Assign(5)>>,
    <<StY, Check(2, D, None)>>,
    <<StY, Check(2, D, None), Check(2, C, None)>>,
    <<StY, If(Cond("c3"), Seqn(<<Assign(7), Check(7, D, None)>>), None)>> }

Bodies ==
  {Seqn(<<s>> \o r \o e) : s \in Preds, r \in Runs, e \in Extras}
  \cup {Seqn(<<Seqn(<<Assign(7), Check(7, D, None)>>), Seqn(<<s>> \o r)>>) :
          s \in Preds, r \in Runs}

NoLabelFunc == [hasLabel |-> FALSE, body |-> Seqn(<<StX, StY>>)]

Init ==
  InitWith({[f \in {1} |-> fn] :
              fn \in {[hasLabel |-> TRUE, body |-> b] : b \in Bodies}
                     \cup {NoLabelFunc}})

Spec == Init /\ [][Next]_vars

-----------------------------------------------------------------------------
\* A function with more eligible sites than the name pool has entries:
\* n blocks [label = i; if (label == i) A], then one last site

CapExtra == 1
CapGroup == 12

\* sites lo..hi in one block: label = lo; if (label == lo) A; label = lo+1; ...
CapSites(lo, hi) ==
  Seqn(Flatten([i \in 1..(hi - lo + 1) |->
         <<Assign(lo + i - 1), Check(lo + i - 1, A, None)>>]))

Min(a, b) == IF a < b THEN a ELSE b

CapGroups(n) ==
  [g \in 1..((n + CapGroup - 1) \div CapGroup) |->
     CapSites((g - 1) * CapGroup + 1, Min(g * CapGroup, n))]

CapTails ==
  { <<Seqn(<<Assign(0), Check(0, B, None)>>)>>,
    <<Seqn(<<Seqn(<<StX, If(Cond("c1"), Assign(0), Assign(2000))>>),
             Check(0, B, Check(2000, C, None))>>)>>,
    <<Seqn(<<Assign(0), Block(UserName(2), <<Check(0, B, None)>>)>>)>>,
    <<Seqn(<<Assign(0), Check(0, B, None), StY, Assign(0)>>)>> }

\* blocks of blocks, so that no list is longer than 2 * CapGroup
RECURSIVE Nest(_)
Nest(blocks) ==
  IF Len(blocks) <= 2 * CapGroup THEN blocks
  ELSE Nest([c \in 1..((Len(blocks) + 2 * CapGroup - 1) \div (2 * CapGroup)) |->
               Seqn(SubSeq(blocks, (c - 1) * 2 * CapGroup + 1,
                           Min(c * 2 * CapGroup, Len(blocks))))])

CapBodies ==
  {Seqn(Nest(CapGroups(n)) \o t) :
     n \in (MAX_NAME_INDEX - 1)..(MAX_NAME_INDEX - 1 + CapExtra), t \in CapTails}

InitCap ==
  InitWith({[f \in {1} |-> [hasLabel |-> TRUE, body |-> b]] : b \in CapBodies})

SpecCap == InitCap /\ [][Next]_vars

-----------------------------------------------------------------------------
\* What the last visitBlock of function f found and left

Log(f) == visit[f].log
Before(f) == visit[f].block
After(f) == GetAt(tree[f], visit[f].path)

\* the function the running instance was given
Input(f) == IF run[f] = 1 THEN func[f].body ELSE first[f]

NumChecks(t, v) ==
  LET vals == FinderChecks(t, LABEL)
  IN Cardinality({i \in DOMAIN vals : vals[i] = v})

NumSets(t, v) ==
  LET vals == FinderSets(t, LABEL)
  IN Cardinality({i \in DOMAIN vals : vals[i] = v})

\* the label-check conditionals of a chain, head first, following the false
\* branches for as long as they are label-check conditionals
RECURSIVE Chain(_)
Chain(iff) ==
  IF isLabelCheckingIf(iff, LABEL) THEN <<iff>> \o Chain(iff.ifFalse) ELSE <<>>

ChainValues(iff) ==
  LET c == Chain(iff) IN {getCheckedLabelValue(c[n]) : n \in DOMAIN c}

\* sub is a subtree of e
RECURSIVE Occurs(_, _)
Occurs(sub, e) ==
  \/ e = sub
  \/ \E i \in DOMAIN Children(e) : Occurs(sub, Children(e)[i])

LabelValues(f) ==
  LET cs == FinderChecks(Input(f), LABEL)
      ss == FinderSets(Input(f), LABEL)
  IN {cs[i] : i \in DOMAIN cs} \cup {ss[i] : i \in DOMAIN ss}

-----------------------------------------------------------------------------
\* C10: at every invocation of the analyzer (every step of its chain walk,
\* after whatever rewrites came before in the function), the number of
\* assignments label = V counted in the predecessor is at most the
\* function-wide number counted before the first rewrite, so the assertion
\* labelSetsInOrigin[num] < labelSets[num] cannot fail.
LocalSetsAtMostFunctionSets ==
  \A f \in Funcs : \A n \in DOMAIN Log(f) : \A m \in DOMAIN Log(f)[n].visited :
    LET step == Log(f)[n].visited[m]
    IN /\ step.setsInOrigin <= step.sets
       /\ step.setsInOrigin = NumSets(Log(f)[n].originBefore, step.num)
       /\ step.sets = NumSets(Input(f), step.num)
       /\ pc[f] # "aborted"

\* an analyzer step after a rewrite of the same run that finds fewer
\* assignments in the predecessor than in the function
LocalSetsWitness ==
  \E f \in Funcs : \E n \in DOMAIN Log(f) : \E m \in DOMAIN Log(f)[n].visited :
    /\ n > 1
    /\ Log(f)[n - 1].rewritten
    /\ Log(f)[n].visited[m].checks = 1
    /\ Log(f)[n].visited[m].setsInOrigin > 0
    /\ Log(f)[n].visited[m].setsInOrigin < Log(f)[n].visited[m].sets

-----------------------------------------------------------------------------
\* C9: within one run (one origin), once the analyzer has reported
\* irreducible for an element, no later element of the run is rewritten or
\* replaced by a no-op (its child stays in its slot), whatever the analyzer
\* says of it alone; every matched child is consumed once, and no consumed
\* child is an origin.
IrreducibleIsSticky ==
  \A f \in Funcs : \A n \in DOMAIN Log(f) :
    /\ \A m \in DOMAIN Log(f) :
         (m < n /\ Log(f)[m].origin = Log(f)[n].origin /\ Log(f)[m].analysis)
           => /\ ~Log(f)[n].rewritten
              /\ Log(f)[n].drawn = <<>>
              /\ After(f).list[Log(f)[n].j] = Before(f).list[Log(f)[n].j]
    /\ \A m \in DOMAIN Log(f) :
         /\ (m # n => Log(f)[m].j # Log(f)[n].j)
         /\ Log(f)[m].origin # Log(f)[n].j
    /\ n > 1 => \/ /\ Log(f)[n].origin = Log(f)[n - 1].origin
                   /\ Log(f)[n].j = Log(f)[n - 1].j + 1
                \/ Log(f)[n].origin > Log(f)[n - 1].j

\* a later element of a run that passes the analysis on its own, after an
\* element of the run was found irreducible
StickyWitness ==
  \E f \in Funcs : \E n \in DOMAIN Log(f) : \E m \in DOMAIN Log(f) :
    /\ m < n
    /\ Log(f)[m].origin = Log(f)[n].origin
    /\ Log(f)[m].analysis
    /\ ~Log(f)[n].analysis
    /\ ~Log(f)[n].holder

-----------------------------------------------------------------------------
\* C8: the rewriter draws a name for, and treats as a chain element, exactly
\* the label-check conditionals of the chain: the elements the analyzer
\* walks.  A false branch that is not a label-check conditional gets none.
RewriterWalksAnalyzedChain ==
  \A f \in Funcs : \A n \in DOMAIN Log(f) :
    Log(f)[n].rewritten =>
      /\ Len(Log(f)[n].drawn) = Len(Chain(Log(f)[n].iff))
      /\ Len(Log(f)[n].drawn) = Len(Log(f)[n].visited)

-----------------------------------------------------------------------------
\* C3: when the cursor is at the cap as a rewrite of a chain element is
\* requested, that conditional is still in the tree afterwards; when it is
\* the head of the chain, the matched child is still in its slot and the
\* predecessor is as found.
CappedElementLeftAsFound ==
  \A f \in Funcs : \A n \in DOMAIN Log(f) : \A m \in DOMAIN Log(f)[n].drawn :
    Log(f)[n].drawn[m].capped =>
      /\ m <= Len(Chain(Log(f)[n].iff))
           => Occurs(Chain(Log(f)[n].iff)[m], After(f))
      /\ m = 1 =>
           /\ After(f).list[Log(f)[n].j] = Before(f).list[Log(f)[n].j]
           /\ After(f).list[Log(f)[n].origin] = Log(f)[n].originBefore

-----------------------------------------------------------------------------
\* C1: for every label value V checked more than once in the function the
\* pass was given, every conditional on V is still there and no assignment
\* label = V has been turned into a break.
MultiplyCheckedLeftIntact ==
  \A f \in Funcs : \A v \in LabelValues(f) :
    NumChecks(Input(f), v) > 1 =>
      /\ NumChecks(tree[f], v) = NumChecks(Input(f), v)
      /\ NumSets(tree[f], v) = NumSets(Input(f), v)

-----------------------------------------------------------------------------
\* the child in front of the conditional (or holder) whose chain checks v
\* holds fewer assignments label = v than the function t
SetOutsidePreceding(t, v) ==
  LET paths == BlockPaths(t)
      total == NumSets(t, v)
  IN \E n \in DOMAIN paths :
    LET l == GetAt(t, paths[n]).list
    IN \E j \in 2..Len(l) :
         LET head == IF isLabelCheckingIf(l[j], LABEL) THEN l[j]
                     ELSE IF l[j].k = "block" /\ Len(l[j].list) > 0
                       THEN l[j].list[1] ELSE None
         IN /\ v \in ChainValues(head)
            /\ NumSets(l[j - 1], v) < total

-----------------------------------------------------------------------------
\* Execution of a tree.  st = [label, x, trace, out]: the two locals, the
\* statements executed so far and the name being broken to (NoName: none).
\* env gives the values of the opaque conditions.

Event(e, id, v) == [e |-> e, id |-> id, v |-> v]

RECURSIVE Exec(_, _, _)
RECURSIVE ExecList(_, _, _, _)

ExecList(l, i, st, env) ==
  IF i > Len(l) \/ st.out # NoName THEN st
  ELSE ExecList(l, i + 1, Exec(l[i], st, env), env)

Exec(e, st, env) ==
  IF st.out # NoName THEN st
  ELSE IF e.k = "block" THEN
    LET r == ExecList(e.list, 1, st, env)
    IN IF r.out = e.name THEN [r EXCEPT !.out = NoName] ELSE r
  ELSE IF e.k = "if" THEN
    LET c == IF e.condition.k = "eq"
               THEN (IF e.condition.index = LABEL THEN st.label ELSE st.x)
                      = e.condition.value
               ELSE env[e.condition.id]
    IN IF c THEN Exec(e.ifTrue, st, env)
       ELSE IF e.ifFalse = None THEN st ELSE Exec(e.ifFalse, st, env)
  ELSE IF e.k = "set" THEN
    IF e.index = LABEL
      THEN [st EXCEPT !.label = e.value,
                      !.trace = Append(@, Event("set", "", e.value))]
      ELSE [st EXCEPT !.x = e.value]
  ELSE IF e.k = "break" THEN [st EXCEPT !.out = e.name]
  ELSE IF e.k = "stmt" THEN [st EXCEPT !.trace = Append(@, Event("stmt", e.id, 0))]
  ELSE st

Envs == [{"c1", "c2", "c3"} -> BOOLEAN]
Starts == {[label |-> l, x |-> x, trace |-> <<>>, out |-> NoName] :
             l \in {0, 1, 2, 5}, x \in {0, 2}}

RECURSIVE Without(_, _)
Without(tr, vs) ==
  IF tr = <<>> THEN <<>>
  ELSE IF Head(tr).e = "set" /\ Head(tr).v \in vs THEN Without(Tail(tr), vs)
  ELSE <<Head(tr)>> \o Without(Tail(tr), vs)

\* what an execution shows: the statements run, in order (the assignments of
\* the values vs aside), and where control goes
Observed(e, st, env, vs) ==
  LET r == Exec(e, st, env) IN [trace |-> Without(r.trace, vs), out |-> r.out]

\* in the execution of s, an assignment of a value of vs, if one is executed,
\* is the last thing executed and control then leaves s at its end
TailFire(s, st, env, vs) ==
  LET r == Exec(s, st, env)
  IN \A i \in DOMAIN r.trace :
       (r.trace[i].e = "set" /\ r.trace[i].v \in vs)
         => (i = Len(r.trace) /\ r.out = NoName)

RECURSIVE UsesPoolNames(_)
UsesPoolNames(e) ==
  \/ e.k \in {"block", "break"} /\ e.name.s \in {"inner", "outer"}
  \/ \E i \in DOMAIN Children(e) : UsesPoolNames(Children(e)[i])

\* s with every assignment label = v replaced by a break to name
RECURSIVE WithBreak(_, _, _)
WithBreak(s, v, name) ==
  IF s = Assign(v) THEN Break(name)
  ELSE IF s.k = "block"
    THEN Block(s.name,
               [i \in 1..Len(s.list) |-> WithBreak(s.list[i], v, name)] \o <<>>)
  ELSE IF s.k = "if"
    THEN If(s.condition, WithBreak(s.ifTrue, v, name),
            IF s.ifFalse = None THEN None ELSE WithBreak(s.ifFalse, v, name))
  ELSE s

\* inner{ s; break outer }: s wrapped, or s's own list when s is an unnamed block
IsInner(e, s, k) ==
  /\ e.k = "block"
  /\ e.name = innerNames(k)
  /\ \/ e.list = <<s, Break(outerNames(k))>>
     \/ /\ s.k = "block"
        /\ s.name = NoName
        /\ e.list = Append(s.list, Break(outerNames(k)))

\* outer{ inner{ s; break outer }; b }
IsOuter(e, s, b, k) ==
  /\ e.k = "block"
  /\ e.name = outerNames(k)
  /\ Len(e.list) = 2
  /\ IsInner(e.list[1], s, k)
  /\ e.list[2] = b

Marker(id) == Stmt(id)

-----------------------------------------------------------------------------
\* the visited block was [S; if (label == v) B], S holding the one assignment
\* label = v of the function, the conditional being the one check of v
SingleSite(f, v) ==
  /\ Log(f) # <<>>
  /\ Len(Before(f).list) = 2
  /\ isLabelCheckingIf(Before(f).list[2], LABEL)
  /\ getCheckedLabelValue(Before(f).list[2]) = v
  /\ Before(f).list[2].ifFalse = None
  /\ NumSets(Before(f).list[1], v) = 1
  /\ NumSets(Input(f), v) = 1
  /\ NumChecks(Input(f), v) = 1

SingleSiteShape(f, v) ==
  LET k == visit[f].counterBefore
      S == Before(f).list[1]
  IN /\ Len(After(f).list) = 2
     /\ IsOuter(After(f).list[1], WithBreak(S, v, innerNames(k)),
                Before(f).list[2].ifTrue, k)
     /\ After(f).list[2] = Nop

\* the block before and after, with B made an opaque statement
SingleSiteBefore(f) == [Before(f) EXCEPT !.list[2].ifTrue = Marker("B!")]
SingleSiteAfter(f) == [After(f) EXCEPT !.list[1].list[2] = Marker("B!")]

\* C4 as stated: the output is outer{ inner{ S'; break outer }; B } and runs
\* the statements of S and B as the input does, for every S, every starting
\* state and every outcome of the conditions.
SingleSiteEquivalent ==
  \A f \in Funcs : \A v \in LabelValues(f) :
    SingleSite(f, v) =>
      /\ SingleSiteShape(f, v)
      /\ \A env \in Envs : \A st \in Starts :
           Observed(SingleSiteBefore(f), st, env, {v})
             = Observed(SingleSiteAfter(f), st, env, {v})

\* C4 as amended: the same, for the executions that start with label # v and
\* in which the assignment label = v, if executed, is the last thing S
\* executes before control leaves S at its end; the names drawn are not
\* already used in S and the cursor is below the cap.
SingleSiteEquivalentWhenTail ==
  \A f \in Funcs : \A v \in LabelValues(f) :
    (/\ SingleSite(f, v)
     /\ ~UsesPoolNames(Before(f))
     /\ visit[f].counterBefore < MAX_NAME_INDEX) =>
      /\ SingleSiteShape(f, v)
      /\ \A env \in Envs : \A st \in Starts :
           (st.label # v /\ TailFire(Before(f).list[1], st, env, {v})) =>
             Observed(SingleSiteBefore(f), st, env, {v})
               = Observed(SingleSiteAfter(f), st, env, {v})

\* a rewritten single site whose S is more than the bare assignment, with an
\* execution in which the assignment fires last and one in which it does not
\* fire
SingleSiteWitness ==
  \E f \in Funcs : \E v \in LabelValues(f) :
    /\ SingleSite(f, v)
    /\ ~UsesPoolNames(Before(f))
    /\ Before(f).list[1].k = "block"
    /\ SingleSiteShape(f, v)
    /\ \E env \in Envs : \E st \in Starts :
         /\ st.label # v
         /\ TailFire(Before(f).list[1], st, env, {v})
         /\ Event("stmt", "B!", 0) \in
              {Exec(SingleSiteAfter(f), st, env).trace[i] :
                 i \in DOMAIN Exec(SingleSiteAfter(f), st, env).trace}
    /\ \E env \in Envs : \E st \in Starts :
         /\ st.label # v
         /\ TailFire(Before(f).list[1], st, env, {v})
         /\ Event("stmt", "B!", 0) \notin
              {Exec(SingleSiteAfter(f), st, env).trace[i] :
                 i \in DOMAIN Exec(SingleSiteAfter(f), st, env).trace}

-----------------------------------------------------------------------------
\* the visited block was [S; if (label == v1) A else if (label == v2) B],
\* v1 and v2 each checked once in the function and assigned only inside S
ChainSite(f, v1, v2) ==
  /\ Log(f) # <<>>
  /\ Len(Before(f).list) = 2
  /\ Len(Chain(Before(f).list[2])) = 2
  /\ getCheckedLabelValue(Chain(Before(f).list[2])[1]) = v1
  /\ getCheckedLabelValue(Chain(Before(f).list[2])[2]) = v2
  /\ Chain(Before(f).list[2])[2].ifFalse = None
  /\ \A v \in {v1, v2} :
       /\ NumChecks(Input(f), v) = 1
       /\ NumSets(Before(f).list[1], v) = NumSets(Input(f), v)
  /\ ~UsesPoolNames(Input(f))
  /\ visit[f].counterBefore + 1 < MAX_NAME_INDEX

ChainSiteBefore(f) ==
  [Before(f) EXCEPT !.list[2].ifTrue = Marker("A!"),
                    !.list[2].ifFalse.ifTrue = Marker("B!")]
ChainSiteAfter(f) ==
  [After(f) EXCEPT !.list[1].list[2] = Marker("B!"),
                   !.list[1].list[1].list[1].list[2] = Marker("A!")]

RECURSIVE NamesIn(_)
NamesIn(e) ==
  (IF e.k = "block" THEN <<e.name>> ELSE <<>>)
    \o Flatten([i \in DOMAIN Children(e) |-> NamesIn(Children(e)[i])])

TimesNamed(t, name) ==
  LET names == NamesIn(t)
  IN Cardinality({i \in DOMAIN names : names[i] = name})

\* C5: both elements of the chain are rewritten in the one visit: the element
\* for v1 with index k, the element for v2 with index k+1, k being the cursor
\* when the rewrite starts; the four names occur once each in the function;
\* the scopes for v2 enclose the scopes for v1, A inside and B after; no
\* execution runs both A and B, and one that starts with label outside
\* {v1, v2} and leaves S right after an assignment of v1 or v2 runs what the
\* input runs.
ChainRewrittenInOrder ==
  \A f \in Funcs : \A v1 \in LabelValues(f) : \A v2 \in LabelValues(f) :
    ChainSite(f, v1, v2) =>
      LET k == visit[f].counterBefore
          S == Before(f).list[1]
          A1 == Before(f).list[2].ifTrue
          B1 == Before(f).list[2].ifFalse.ifTrue
          S1 == WithBreak(WithBreak(S, v1, innerNames(k)), v2, innerNames(k + 1))
          o2 == After(f).list[1]
      IN /\ Len(Log(f)) = 1
         /\ Log(f)[1].drawn = <<[index |-> k, capped |-> FALSE, num |-> v1],
                                [index |-> k + 1, capped |-> FALSE, num |-> v2]>>
         /\ newNameCounter[CounterSlot(f)] = k + 2
         /\ \A n \in {innerNames(k), outerNames(k),
                      innerNames(k + 1), outerNames(k + 1)} :
              TimesNamed(tree[f], n) = 1
         /\ After(f).list[2] = Nop
         /\ o2.k = "block" /\ o2.name = outerNames(k + 1)
         /\ o2.list[2] = B1
         /\ o2.list[1] = Block(innerNames(k + 1),
                               <<o2.list[1].list[1], Break(outerNames(k + 1))>>)
         /\ IsOuter(o2.list[1].list[1], S1, A1, k)
         /\ \A env \in Envs : \A st \in Starts :
              LET new == Exec(ChainSiteAfter(f), st, env)
                  ran == {new.trace[i].id : i \in DOMAIN new.trace}
              IN /\ ~({"A!", "B!"} \subseteq ran)
                 /\ (st.label \notin {v1, v2} /\ TailFire(S, st, env, {v1, v2}))
                      => Observed(ChainSiteBefore(f), st, env, {v1, v2})
                           = Observed(ChainSiteAfter(f), st, env, {v1, v2})

\* a rewritten chain that did not start at index 0, with executions that
\* reach A, that reach B and that reach neither
ChainWitness ==
  \E f \in Funcs : \E v1 \in LabelValues(f) : \E v2 \in LabelValues(f) :
    /\ ChainSite(f, v1, v2)
    /\ visit[f].counterBefore > 0
    /\ Len(Log(f)[1].drawn) = 2
    /\ \A want \in {{"A!"}, {"B!"}, {}} :
         \E env \in Envs : \E st \in Starts :
           LET new == Exec(ChainSiteAfter(f), st, env)
           IN /\ st.label \notin {v1, v2}
              /\ TailFire(Before(f).list[1], st, env, {v1, v2})
              /\ {new.trace[i].id : i \in DOMAIN new.trace} \cap {"A!", "B!"} = want

-----------------------------------------------------------------------------
\* the site of a log entry of the second run is one the first run rewrote:
\* the visited block is a scope the first run built, or the origin slot holds
\* such a scope (directly or inside the holder moved there), or is a no-op
IsPoolBlock(e) == e.k = "block" /\ e.name.s \in {"inner", "outer"}

FirstRunSite(f, n) ==
  \/ IsPoolBlock(Before(f))
  \/ IsPoolBlock(Log(f)[n].originBefore)
  \/ /\ Log(f)[n].originBefore.k = "block"
     /\ Len(Log(f)[n].originBefore.list) = 1
     /\ IsPoolBlock(Log(f)[n].originBefore.list[1])
  \/ Log(f)[n].originBefore = Nop

\* C6: the second run of the pass, over the output of the first, rewrites
\* nothing at a site the first run rewrote: there it draws no name and
\* leaves the matched child and the origin slot as they are.
SecondRunLeavesFirstRunSites ==
  \A f \in Funcs : \A n \in DOMAIN Log(f) :
    (run[f] = 2 /\ ~UsesPoolNames(func[f].body) /\ FirstRunSite(f, n)) =>
      /\ Log(f)[n].drawn = <<>>
      /\ After(f).list[Log(f)[n].j] = Before(f).list[Log(f)[n].j]
      /\ After(f).list[Log(f)[n].origin] = Log(f)[n].originBefore

-----------------------------------------------------------------------------
\* Functions optimized in parallel, one instance each

ParFuncs ==
  { [hasLabel |-> TRUE, body |-> Seqn(<<Assign(5), Check(5, B, None)>>)],
    [hasLabel |-> TRUE,
     body |-> Seqn(<<Seqn(<<Assign(7), Check(7, D, None)>>),
                     Seqn(<<If(Cond("c1"), Assign(1), Assign(2)),
                            Check(1, A, Check(2, B, None))>>)>>)],
    NoLabelFunc }

InitPar == InitWith([1..NumFuncs -> ParFuncs])

SpecPar == InitPar /\ [][Next]_vars

\* the instance run alone: the first n blocks of paths visited in order
RECURSIVE RunAlone(_, _, _, _, _, _)
RunAlone(t, paths, n, checks, sets, counter) ==
  IF n = 0 THEN [tree |-> t, newNameCounter |-> counter]
  ELSE LET curr == GetAt(t, Head(paths))
           r == visitBlock(curr, LABEL, checks, sets, counter)
       IN RunAlone(PutAt(t, Head(paths), [curr EXCEPT !.list = r.list]),
                   Tail(paths), n - 1, checks, sets, r.newNameCounter)

Alone(f) ==
  LET paths == BlockPaths(Input(f))
  IN RunAlone(Input(f), paths, Len(paths) - Len(pending[f]),
              CountMap(FinderChecks(Input(f), LABEL)),
              CountMap(FinderSets(Input(f), LABEL)), 0)

\* C7: whatever the other instances have done in between, the tree of a
\* function and the cursor of its instance are what the instance run alone
\* produces after the same number of its own steps; nothing else changes
\* them.
ParallelAsAlone ==
  \A f \in Funcs :
    IF func[f].hasLabel /\ pc[f] \in {"walking", "done"}
      THEN /\ tree[f] = Alone(f).tree
           /\ newNameCounter[f] = Alone(f).newNameCounter
      ELSE /\ tree[f] = Input(f)
           /\ newNameCounter[f] = 0

\* two instances in the middle of their walks, each having drawn names, one
\* further along than the other
ParallelWitness ==
  \E f \in Funcs : \E g \in Funcs :
    /\ f # g
    /\ pc[f] = "walking" /\ pc[g] = "walking"
    /\ run[f] = 1 /\ run[g] = 1
    /\ newNameCounter[f] > 0
    /\ newNameCounter[g] > newNameCounter[f]
    /\ func[f] = func[g]
    /\ Len(pending[f]) > Len(pending[g])

====
